---- MODULE Spec2Model ----
(***************************************************************************)
(* FitFuel (src/main.py): the nutrition engine (BMR -> TDEE -> macros),    *)
(* the flat-file entry store (data/users.json) and the two handlers that   *)
(* use them (POST /calculate, GET /dashboard).                             *)
(*                                                                         *)
(* Numbers.  The engine computes in binary doubles and the model does the  *)
(* same: every arithmetic step is rounded to 53 bits as the hardware       *)
(* rounds it, and the constants 1.8, 0.8, 1.2, ... are the doubles nearest *)
(* to the decimal literals.  The inputs of the model are multiples of      *)
(* 1/8 kg, 1/2 cm and 1/8 kcal.                                            *)
(***************************************************************************)
EXTENDS Integers, Sequences, FiniteSets, TLC

VARIABLES file, clock, stamped, resp, pc, data, oplog, args

vars == <<file, clock, stamped, resp, pc, data, oplog, args>>

----------------------------------------------------------------------------
(* Bounds of the model *)

MaxWeight8 == 12    \* SpecCalc: weights 0/8 .. MaxWeight8/8 kg (plus a few fixed heavier ones)
MaxHeight2 == 4     \* SpecCalc: heights 1/2 .. MaxHeight2/2 cm (plus a few fixed taller ones)
MaxTotal == 3       \* SpecCalc: compute_macros totals around the protein+fat cost
MaxStore == 3       \* SpecStore: the store holds at most this many elements
MaxSaved == 2       \* Spec: the handlers stop saving at this many entries

----------------------------------------------------------------------------
(* Strings are sequences of character codes where the code looks inside    *)
(* them (gender.lower(), the timestamp ordering).                          *)

Male == <<109, 97, 108, 101>>              \* "male"
MaleUpper == <<77, 65, 76, 69>>            \* "MALE"
Female == <<102, 101, 109, 97, 108, 101>>  \* "female"
EmptyStr == << >>                          \* ""

\* str.lower() on ASCII
Lower(s) == [i \in 1..Len(s) |-> IF s[i] >= 65 /\ s[i] <= 90 THEN s[i] + 32 ELSE s[i]]

\* Python's str < str: code point by code point, a proper prefix is smaller
StrLess(a, b) ==
    \E k \in 1..(Len(b)) :
        /\ \A i \in 1..(k - 1) : i <= Len(a) /\ a[i] = b[i]
        /\ \/ k = Len(a) + 1
           \/ k <= Len(a) /\ a[k] < b[k]

----------------------------------------------------------------------------
(* Binary doubles.  A natural number is a sequence of limbs, least         *)
(* significant first, each in 0 .. Base-1, without leading zero limbs      *)
(* (0 is << >>).  A double is [neg, m, e]: the value (-1)^neg * m * 2^e    *)
(* with m a natural number of exactly 53 bits, or [FALSE, 0, 0] for zero.  *)
(* The model's values stay far from the exponent limits, so there is no    *)
(* overflow and no subnormal.                                              *)

Base == 32768
LimbBits == 15
MantissaBits == 53

RECURSIVE Trim(_)
Trim(x) == IF x = << >> \/ x[Len(x)] # 0 THEN x ELSE Trim(SubSeq(x, 1, Len(x) - 1))

RECURSIVE FromInt(_)
FromInt(n) == IF n = 0 THEN << >> ELSE <<n % Base>> \o FromInt(n \div Base)

RECURSIVE ToInt(_)
ToInt(x) == IF x = << >> THEN 0 ELSE x[1] + Base * ToInt(Tail(x))

Limb(x, i) == IF i <= Len(x) THEN x[i] ELSE 0

RECURSIVE AddCarry(_, _, _)
AddCarry(x, y, c) ==
    IF x = << >> /\ y = << >> THEN FromInt(c)
    ELSE LET t == Limb(x, 1) + Limb(y, 1) + c
         IN  <<t % Base>> \o AddCarry(SubSeq(x, 2, Len(x)), SubSeq(y, 2, Len(y)), t \div Base)

BigAdd(x, y) == AddCarry(x, y, 0)

RECURSIVE SubBorrow(_, _, _)
SubBorrow(x, y, b) ==
    IF x = << >> THEN << >>
    ELSE LET t == x[1] - Limb(y, 1) - b
         IN  <<t % Base>> \o SubBorrow(Tail(x), SubSeq(y, 2, Len(y)), IF t < 0 THEN 1 ELSE 0)

\* x - y for x >= y
BigSub(x, y) == Trim(SubBorrow(x, y, 0))

RECURSIVE MulLimb(_, _, _)
MulLimb(x, k, c) ==
    IF x = << >> THEN FromInt(c)
    ELSE LET t == x[1] * k + c
         IN  <<t % Base>> \o MulLimb(Tail(x), k, t \div Base)

RECURSIVE BigMul(_, _)
BigMul(x, y) ==
    IF x = << >> \/ y = << >> THEN << >>
    ELSE BigAdd(MulLimb(x, y[1], 0),
                IF Len(y) = 1 THEN << >> ELSE <<0>> \o BigMul(x, Tail(y)))

BigLess(x, y) ==
    \/ Len(x) < Len(y)
    \/ /\ Len(x) = Len(y)
       /\ \E i \in 1..Len(x) : x[i] < y[i] /\ \A j \in (i + 1)..Len(x) : x[j] = y[j]

BitLen(x) ==
    IF x = << >> THEN 0
    ELSE LimbBits * (Len(x) - 1) + Cardinality({k \in 0..(LimbBits - 1) : 2^k <= x[Len(x)]})

\* x * 2^s
Shl(x, s) ==
    IF x = << >> THEN << >>
    ELSE [i \in 1..(s \div LimbBits) |-> 0] \o MulLimb(x, 2^(s % LimbBits), 0)

\* floor(x / 2^s)
Shr(x, s) ==
    LET q == s \div LimbBits
        r == s % LimbBits
    IN  Trim([i \in 1..(IF Len(x) > q THEN Len(x) - q ELSE 0) |->
                 (x[i + q] \div 2^r) + (Limb(x, i + q + 1) % 2^r) * 2^(LimbBits - r)])

IsOdd(x) == x # << >> /\ x[1] % 2 = 1

\* floor(x / d) for 0 < d < Base, x given from its most significant limb down
RECURSIVE DivLimb(_, _, _)
DivLimb(x, d, rem) ==
    IF x = << >> THEN << >>
    ELSE LET t == rem * Base + x[Len(x)]
         IN  DivLimb(SubSeq(x, 1, Len(x) - 1), d, t % d) \o <<t \div d>>

BigDiv(x, d) == Trim(DivLimb(x, d, 0))

\* round half to even: the quotient q, the remainder r, half of the divisor
RoundUp(q, r, half) == BigLess(half, r) \/ (r = half /\ IsOdd(q))

\* a mantissa of 53 bits, or 2^53 after a carry out of the rounding
Carried(neg, q, e) ==
    IF BitLen(q) > MantissaBits THEN [neg |-> neg, m |-> Shr(q, 1), e |-> e + 1]
    ELSE [neg |-> neg, m |-> q, e |-> e]

\* m = q * 2^s + r rounded to q or q + 1, ties to even
Round53(neg, q, r, s, e) ==
    Carried(neg, IF RoundUp(q, r, Shl(<<1>>, s - 1)) THEN BigAdd(q, <<1>>) ELSE q, e + s)

Quotient(neg, m, q, s, e) == Round53(neg, q, BigSub(m, Shl(q, s)), s, e)

\* m has s bits more than a mantissa (s <= 0: it has room for -s bits more)
Normalised(neg, m, s, e) ==
    IF s <= 0 THEN [neg |-> neg, m |-> Shl(m, 0 - s), e |-> e + s]
    ELSE Quotient(neg, m, Shr(m, s), s, e)

\* the double nearest to (-1)^neg * m * 2^e, its mantissa normalised to 53 bits
Double(neg, m, e) ==
    IF m = << >> THEN [neg |-> FALSE, m |-> << >>, e |-> 0]
    ELSE Normalised(neg, m, BitLen(m) - MantissaBits, e)

Magnitude(n) == FromInt(IF n < 0 THEN 0 - n ELSE n)

\* the double of an integer
float(n) == Double(n < 0, Magnitude(n), 0)

\* the double of n / 2^k
Dyadic(n, k) == Double(n < 0, Magnitude(n), 0 - k)

\* the quotient q of x by d, its last bit set when the division left a remainder
Sticky(x, q, d) == IF BigMul(q, FromInt(d)) = x \/ IsOdd(q) THEN q ELSE BigAdd(q, <<1>>)

Scaled(x, d) == Sticky(x, BigDiv(x, d), d)

\* the double nearest to the decimal literal n/d (d < Base): the quotient to
\* 80 extra bits, rounded once
Literal(n, d) == Double(FALSE, Scaled(Shl(FromInt(n), 80), d), 0 - 80)

FNeg(a) == [neg |-> ~a.neg /\ a.m # << >>, m |-> a.m, e |-> a.e]

\* a * b
FMul(a, b) == Double(a.neg # b.neg, BigMul(a.m, b.m), a.e + b.e)

MinOf(a, b) == IF a <= b THEN a ELSE b

\* the mantissa of a at exponent e <= a.e
At(a, e) == Shl(a.m, a.e - e)

\* the sum of two signed magnitudes x and y at exponent e
Sum(xneg, x, yneg, y, e) ==
    Double(IF xneg # yneg /\ BigLess(x, y) THEN yneg ELSE xneg,
           IF xneg = yneg THEN BigAdd(x, y)
           ELSE IF BigLess(x, y) THEN BigSub(y, x) ELSE BigSub(x, y),
           e)

Aligned(a, b, e) == Sum(a.neg, At(a, e), b.neg, At(b, e), e)

\* a + b
FAdd(a, b) == Aligned(a, b, MinOf(a.e, b.e))

\* a - b
FSub(a, b) == FAdd(a, FNeg(b))

Below(neg, x, y) == IF neg THEN BigLess(y, x) ELSE BigLess(x, y)

LessAt(a, b, e) == IF a.neg # b.neg THEN a.neg ELSE Below(a.neg, At(a, e), At(b, e))

\* a < b
FLess(a, b) == LessAt(a, b, MinOf(a.e, b.e))

\* max(a, b): Python returns the first argument unless the second is greater
FMax(a, b) == IF FLess(a, b) THEN b ELSE a

Signed(neg, n) == IF neg THEN 0 - n ELSE n

\* the integer part q and the fraction r / 2^s of a magnitude
Fraction(m, q, s) == [q |-> q, r |-> BigSub(m, Shl(q, s)), half |-> Shl(<<1>>, s - 1)]

Split(a) ==
    IF a.e >= 0 THEN [q |-> Shl(a.m, a.e), r |-> << >>, half |-> <<1>>]
    ELSE Fraction(a.m, Shr(a.m, 0 - a.e), 0 - a.e)

\* a fraction of a half or more is rounded away from zero
NearestUp(p) == IF BigLess(p.r, p.half) THEN p.q ELSE BigAdd(p.q, <<1>>)

\* round with ties rounded away from zero
round_half_up(a) == Signed(a.neg, ToInt(NearestUp(Split(a))))

\* ties to even
NearestEven(p) == IF RoundUp(p.q, p.r, p.half) THEN BigAdd(p.q, <<1>>) ELSE p.q

\* round(a): the nearest integer, ties to even
round(a) == Signed(a.neg, ToInt(NearestEven(Split(a))))

----------------------------------------------------------------------------
(* The calculation engine *)

\* The float literals of the source
Zero == float(0)
Four == float(4)
Five == float(5)
Nine == float(9)
Ten == float(10)
Quarter == Dyadic(1, 2)              \* 1 / 4.0
F161 == float(161)
F6_25 == Literal(625, 100)
F1_8 == Literal(18, 10)
F0_8 == Literal(8, 10)
F1_2 == Literal(12, 10)
F1_375 == Literal(1375, 1000)
F1_55 == Literal(155, 100)
F1_725 == Literal(1725, 1000)
F1_9 == Literal(19, 10)

\* calculate_bmr_mifflin_st_jeor
calculate_bmr_mifflin_st_jeor(weight_kg, height_cm, age_years, gender) ==
    LET base == FSub(FAdd(FMul(Ten, weight_kg), FMul(F6_25, height_cm)),
                     FMul(Five, float(age_years)))
    IN  IF Lower(gender) = Male THEN FAdd(base, Five) ELSE FSub(base, F161)

\* activity_multiplier
activity_multiplier(level) ==
    CASE level = "sedentary" -> F1_2
      [] level = "light" -> F1_375
      [] level = "moderate" -> F1_55
      [] level = "very" -> F1_725
      [] level = "extra" -> F1_9
      [] OTHER -> F1_2

\* compute_macros with fat counted at 4 kcal/g
compute_macros_fat4(total_calories, weight_kg) ==
    LET protein_grams == FMul(F1_8, weight_kg)
        fat_grams == FMul(F0_8, weight_kg)
        protein_cal == FMul(protein_grams, Four)
        fat_cal == FMul(fat_grams, Four)
        remaining_cal_for_carbs == FMax(FSub(total_calories, FAdd(protein_cal, fat_cal)), Zero)
    IN  [protein_g |-> protein_grams, fat_g |-> fat_grams,
         carb_g |-> FMul(remaining_cal_for_carbs, Quarter)]

\* compute_macros without the max(..., 0.0)
compute_macros_unclamped(total_calories, weight_kg) ==
    LET protein_grams == FMul(F1_8, weight_kg)
        fat_grams == FMul(F0_8, weight_kg)
        protein_cal == FMul(protein_grams, Four)
        fat_cal == FMul(fat_grams, Nine)
    IN  [protein_g |-> protein_grams, fat_g |-> fat_grams,
         carb_g |-> FMul(FSub(total_calories, FAdd(protein_cal, fat_cal)), Quarter)]

\* compute_macros: protein 1.8 g/kg, fat 0.8 g/kg, the rest of the calories as carbs
compute_macros(total_calories, weight_kg) ==
    LET protein_grams == FMul(F1_8, weight_kg)
        fat_grams == FMul(F0_8, weight_kg)
        protein_cal == FMul(protein_grams, Four)
        fat_cal == FMul(fat_grams, Nine)
        remaining_cal_for_carbs == FMax(FSub(total_calories, FAdd(protein_cal, fat_cal)), Zero)
        carb_grams == FMul(remaining_cal_for_carbs, Quarter)
    IN  [protein_g |-> protein_grams, fat_g |-> fat_grams, carb_g |-> carb_grams]

\* The result dict of calculate: every number rounded to an integer, the
\* multiplier as it is
Result(bmr, multiplier, tdee, macros) ==
    [calories |-> round(tdee),
     protein_g |-> round(macros.protein_g),
     fat_g |-> round(macros.fat_g),
     carb_g |-> round(macros.carb_g),
     bmr |-> round(bmr),
     activity_multiplier |-> multiplier]

\* macros = compute_macros(tdee, weight_kg)
WithMacros(weight_kg, bmr, multiplier, tdee) ==
    Result(bmr, multiplier, tdee, compute_macros(tdee, weight_kg))

\* tdee = bmr * multiplier
WithTdee(weight_kg, bmr, multiplier) ==
    WithMacros(weight_kg, bmr, multiplier, FMul(bmr, multiplier))

\* bmr and multiplier from the submitted fields
Computed(weight_kg, height_cm, age_years, gender, activity_level) ==
    WithTdee(weight_kg,
             calculate_bmr_mifflin_st_jeor(weight_kg, height_cm, age_years, gender),
             activity_multiplier(activity_level))

\* The result of calculate for a weight of weight8/8 kg and a height of
\* height2/2 cm
ResultOf(weight8, height2, age_years, gender, activity_level) ==
    Computed(Dyadic(weight8, 3), Dyadic(height2, 1), age_years, gender, activity_level)

----------------------------------------------------------------------------
(* The entry store: data/users.json.                                       *)
(* The file is absent, or holds text that is not JSON ("text", the empty   *)
(* file included), or holds a JSON value: an array of elements, an object  *)
(* (items: its keys) or a number.  data/ and users.json are one unit here: *)
(* the file exists only if the directory does.                             *)
(* An element is a record: a JSON object is the record of its keys, the    *)
(* JSON number 5 is written [number |-> 5].                                *)

Absent == [kind |-> "absent", items |-> << >>]
Text == [kind |-> "text", items |-> << >>]
Array(s) == [kind |-> "array", items |-> s]
Object(s) == [kind |-> "object", items |-> s]
Number == [kind |-> "number", items |-> << >>]

IsDict(u) == "number" \notin DOMAIN u

\* _ensure_data_file_exists: the file after the call
EnsureFile(f) == IF f.kind = "absent" THEN Array(<< >>) ELSE f

\* load_users without the try/except
LoadedUncaught(f) == EnsureFile(f)

\* load_users: the value returned (json.loads of the text, [] when it raises)
Loaded(f) == IF EnsureFile(f).kind = "text" THEN Array(<< >>) ELSE EnsureFile(f)

\* save_user_entry: data.append(entry) raises AttributeError unless data is a list
AppendRaises(f) == Loaded(f).kind # "array"

\* save_user_entry inserting at the front
SavedPrepend(f, entry) ==
    IF Loaded(f).kind # "array" THEN EnsureFile(f)
    ELSE Array(<<entry>> \o Loaded(f).items)

\* save_user_entry: the file after the call
Saved(f, entry) ==
    IF AppendRaises(f) THEN EnsureFile(f)
    ELSE Array(Append(Loaded(f).items, entry))

\* u.get("timestamp", "")
GetTimestamp(u) == IF "timestamp" \in DOMAIN u THEN u.timestamp ELSE EmptyStr

\* sorted(users, key=..., reverse=True): stable, descending by key
RECURSIVE SortedDesc(_)
SortedDesc(s) ==
    IF s = << >> THEN << >>
    ELSE LET rest == SortedDesc(Tail(s))
             k == GetTimestamp(Head(s))
             \* the head goes after the elements with a greater key, and
             \* before those with an equal one (it came first: stable)
             n == Cardinality({i \in 1..Len(rest) :
                      \A j \in 1..i : StrLess(k, GetTimestamp(rest[j]))})
         IN  SubSeq(rest, 1, n) \o <<Head(s)>> \o SubSeq(rest, n + 1, Len(rest))

\* dashboard: sorted() raises when users is not iterable (a number), or when
\* an element it iterates over has no .get (a non-dict element, an object's key)
SortRaises(users) ==
    \/ users.kind = "number"
    \/ users.kind = "object" /\ users.items # << >>
    \/ users.kind = "array" /\ \E i \in 1..Len(users.items) : ~IsDict(users.items[i])

----------------------------------------------------------------------------
(* The clock and the timestamp: datetime.utcnow().isoformat() + "Z".       *)
(* The model's clock stays within one minute of 2024-01-15T10:30.          *)

DatePrefix == <<50, 48, 50, 52, 45, 48, 49, 45, 49, 53, 84, 49, 48, 58, 51, 48, 58>>

Pow10(k) == CASE k = 0 -> 1 [] k = 1 -> 10 [] k = 2 -> 100 [] k = 3 -> 1000
              [] k = 4 -> 10000 [] k = 5 -> 100000 [] OTHER -> 1000000

\* n zero-padded to width digits
Digits(n, width) == [i \in 1..width |-> 48 + ((n \div Pow10(width - i)) % 10)]

\* datetime.isoformat(): the fraction is left out when microsecond == 0
isoformat(t) ==
    DatePrefix \o Digits(t.sec, 2) \o
        (IF t.usec = 0 THEN << >> ELSE <<46>> \o Digits(t.usec, 6))

Timestamp(t) == isoformat(t) \o <<90>>

\* the instants of the model: two successive seconds, each on the second and
\* one microsecond after it
Instants == [sec : {0, 1}, usec : {0, 1}]

Earlier(a, b) == a.sec < b.sec \/ (a.sec = b.sec /\ a.usec < b.usec)

----------------------------------------------------------------------------
(* Responses and idle values *)

NoResp == [op |-> "none", status |-> "ok"]
NoArgs == [fn |-> "none"]
Writers == {1, 2}
IdlePc == [w \in Writers |-> "idle"]
IdleData == [w \in Writers |-> Array(<< >>)]

----------------------------------------------------------------------------
(* The handlers *)

NoSave == << >>    \* the form has no save field: save is None

\* The entry dict with the submitted name stored as it is
EntryOfRawName(name, timestamp, height2, weight8, age_years, gender, activity_level, result) ==
    [name |-> name,
     timestamp |-> timestamp,
     inputs |-> [height_cm |-> height2, weight_kg |-> weight8,
                 age_years |-> age_years, gender |-> gender,
                 activity_level |-> activity_level],
     results |-> result]

\* The entry dict of calculate (lines 182-193)
EntryOf(name, timestamp, height2, weight8, age_years, gender, activity_level, result) ==
    [name |-> IF name = "" THEN "Anonymous" ELSE name,
     timestamp |-> timestamp,
     inputs |-> [height_cm |-> height2, weight_kg |-> weight8,
                 age_years |-> age_years, gender |-> gender,
                 activity_level |-> activity_level],
     results |-> result]

\* POST /calculate
calculate(name, height2, weight8, age_years, gender, activity_level, save) ==
    LET result == ResultOf(weight8, height2, age_years, gender, activity_level)
        inputs == [name |-> name, height_cm |-> height2, weight_kg |-> weight8,
                   age_years |-> age_years, gender |-> gender,
                   activity_level |-> activity_level]
        entry == EntryOf(name, Timestamp(clock), height2, weight8, age_years,
                         gender, activity_level, result)
    IN  IF save # NoSave
        THEN /\ Len(file.items) < MaxSaved
             /\ file' = Saved(file, entry)
             /\ stamped' = stamped \cup {clock}
             /\ resp' = IF AppendRaises(file)
                        THEN [op |-> "calculate", status |-> "error"]
                        ELSE [op |-> "calculate", status |-> "ok", result |-> result,
                              inputs |-> inputs, saved |-> TRUE]
        ELSE /\ file' = file
             /\ stamped' = stamped
             /\ resp' = [op |-> "calculate", status |-> "ok", result |-> result,
                         inputs |-> inputs, saved |-> FALSE]

\* GET /dashboard
dashboard ==
    /\ file' = EnsureFile(file)
    /\ resp' = IF SortRaises(Loaded(file))
               THEN [op |-> "dashboard", status |-> "error"]
               ELSE [op |-> "dashboard", status |-> "ok",
                     users |-> SortedDesc(Loaded(file).items)]

\* load_users, called on its own
load_users ==
    /\ file' = EnsureFile(file)
    /\ resp' = [op |-> "load_users", status |-> "ok", value |-> Loaded(file)]

\* save_user_entry, called on its own
save_user_entry(entry) ==
    /\ Len(file.items) < MaxStore
    /\ file' = Saved(file, entry)
    /\ resp' = [op |-> "save_user_entry", entry |-> entry,
                status |-> IF AppendRaises(file) THEN "error" ELSE "ok"]

\* time passes
Tick == \E t \in Instants : Earlier(clock, t) /\ clock' = t

----------------------------------------------------------------------------
(* Spec: requests handled one at a time on a fresh deployment *)

\* the forms submitted: the save field absent, empty or "on"
Saves == {NoSave, <<"">>, <<"on">>}
Forms == {[name |-> "Ann", h |-> 360, w |-> 640, a |-> 30, g |-> Male, l |-> "moderate"],
          [name |-> "", h |-> 56, w |-> 16, a |-> 1, g |-> MaleUpper, l |-> "lazy"]}

Init ==
    /\ file = Absent
    /\ clock = [sec |-> 0, usec |-> 0]
    /\ stamped = {}
    /\ resp = NoResp
    /\ pc = IdlePc
    /\ data = IdleData
    /\ oplog = << >>
    /\ args = NoArgs

CalculateRequest ==
    /\ \E i \in Forms, save \in Saves :
           calculate(i.name, i.h, i.w, i.a, i.g, i.l, save)
    /\ UNCHANGED <<clock, pc, data, oplog, args>>

DashboardRequest ==
    /\ dashboard
    /\ UNCHANGED <<clock, stamped, pc, data, oplog, args>>

ClockTick ==
    /\ Tick
    /\ UNCHANGED <<file, stamped, resp, pc, data, oplog, args>>

Next == CalculateRequest \/ DashboardRequest \/ ClockTick

Spec == Init /\ [][Next]_vars

----------------------------------------------------------------------------
(* SpecStore: the store's operations on every kind of stored content *)

\* An entry as calculate writes it, saved at instant t
SampleEntry(t) ==
    EntryOf("Ann", Timestamp(t), 360, 640, 30, Male, "moderate",
            ResultOf(640, 360, 30, Male, "moderate"))

Entries == {SampleEntry(t) : t \in Instants}

\* What an array on disk may hold: entries, an object without a timestamp, a number
Elements == Entries \cup {[name |-> "old"], [number |-> 5]}

RECURSIVE SeqsUpTo(_, _)
SeqsUpTo(S, n) ==
    IF n = 0 THEN {<< >>}
    ELSE LET shorter == SeqsUpTo(S, n - 1)
         IN  shorter \cup {Append(s, x) : s \in shorter, x \in S}

StoreContents ==
    {Absent, Text, Number, Object(<< >>), Object(<<[name |-> "key"]>>)}
        \cup {Array(s) : s \in SeqsUpTo(Elements, MaxStore - 1)}

InitStore ==
    /\ file \in StoreContents
    /\ clock = [sec |-> 0, usec |-> 0]
    /\ stamped = {}
    /\ resp = NoResp
    /\ pc = IdlePc
    /\ data = IdleData
    /\ oplog = << >>
    /\ args = NoArgs

LoadCall ==
    /\ load_users
    /\ UNCHANGED <<clock, stamped, pc, data, oplog, args>>

SaveCall ==
    /\ \E e \in Entries : save_user_entry(e)
    /\ UNCHANGED <<clock, stamped, pc, data, oplog, args>>

ListCall ==
    /\ dashboard
    /\ UNCHANGED <<clock, stamped, pc, data, oplog, args>>

NextStore == LoadCall \/ SaveCall \/ ListCall

SpecStore == InitStore /\ [][NextStore]_vars

----------------------------------------------------------------------------
(* SpecCalc: the engine's functions applied to a grid of inputs *)

CalcWeights == (1..MaxWeight8) \cup {16, 100, 560, 640, 1600}
CalcHeights == (1..MaxHeight2) \cup {56, 300, 360}
Ages == {1, 30}
Genders == {Male, MaleUpper, Female, EmptyStr}
Levels == {"sedentary", "light", "moderate", "very", "extra", "", "Moderate"}

CalcArgs ==
    {[fn |-> "calculate", w |-> w, h |-> h, a |-> a, g |-> g, l |-> l] :
        w \in CalcWeights, h \in CalcHeights, a \in Ages, g \in Genders, l \in Levels}

\* compute_macros(total/8, w/8): totals around the cost of protein and fat
\* (14.4 kcal per kg, total = 1.8 * w in these units), and 0
MacroWeights == (0..MaxWeight8) \cup {560}
MacroArgs ==
    {[fn |-> "compute_macros", w |-> w, total |-> ((18 * w) \div 10) + d] :
        w \in MacroWeights, d \in (0 - MaxTotal)..MaxTotal}
      \cup {[fn |-> "compute_macros", w |-> w, total |-> 0] : w \in MacroWeights}

InitCalc ==
    /\ args \in CalcArgs \cup MacroArgs
    /\ file = Absent
    /\ clock = [sec |-> 0, usec |-> 0]
    /\ stamped = {}
    /\ resp = NoResp
    /\ pc = IdlePc
    /\ data = IdleData
    /\ oplog = << >>

CalculateCall ==
    /\ args.fn = "calculate"
    /\ calculate("", args.h, args.w, args.a, args.g, args.l, NoSave)
    /\ UNCHANGED <<clock, pc, data, oplog, args>>

MacrosCall ==
    /\ args.fn = "compute_macros"
    /\ resp' = [op |-> "compute_macros", status |-> "ok",
                macros |-> compute_macros(Dyadic(args.total, 3), Dyadic(args.w, 3))]
    /\ UNCHANGED <<file, clock, stamped, pc, data, oplog, args>>

NextCalc == CalculateCall \/ MacrosCall

SpecCalc == InitCalc /\ [][NextCalc]_vars

----------------------------------------------------------------------------
(* SpecConc: two save_user_entry calls in two worker processes.  Each file *)
(* operation of the call is one step: the exists() test and the write of   *)
(* "[]" in _ensure_data_file_exists (called twice: line 57, line 48), the  *)
(* read in load_users, and the two halves of write_text (open(mode="w")    *)
(* truncates the file, the text reaches it afterwards).                    *)

EntryFor(w) == SampleEntry([sec |-> 0, usec |-> w])

\* json.loads(read_text()) inside try/except: [] when it raises
ReadValue(f) == IF f.kind \in {"absent", "text"} THEN Array(<< >>) ELSE f

\* Writing the new entry alone instead of the whole list
DumpedLastOnly(d) == Array(<<d.items[Len(d.items)]>>)

\* json.dumps(data): what write_text puts in the file
Dumped(d) == d

Log(w, op) == oplog' = Append(oplog, <<w, op>>)

\* DATA_FILE.exists()
Check(w) ==
    /\ pc[w] \in {"ensure1", "ensure2"}
    /\ pc' = [pc EXCEPT ![w] =
                 IF file.kind = "absent"
                 THEN (IF pc[w] = "ensure1" THEN "create1" ELSE "create2")
                 ELSE (IF pc[w] = "ensure1" THEN "ensure2" ELSE "read")]
    /\ Log(w, "exists")
    /\ UNCHANGED <<file, data, clock, stamped, resp, args>>

\* DATA_FILE.write_text("[]")
Create(w) ==
    /\ pc[w] \in {"create1", "create2"}
    /\ file' = Array(<< >>)
    /\ pc' = [pc EXCEPT ![w] = IF pc[w] = "create1" THEN "ensure2" ELSE "read"]
    /\ Log(w, "create")
    /\ UNCHANGED <<data, clock, stamped, resp, args>>

\* data = load_users(); data.append(entry)
Read(w) ==
    /\ pc[w] = "read"
    /\ IF ReadValue(file).kind = "array"
       THEN /\ data' = [data EXCEPT ![w] = Array(Append(ReadValue(file).items, EntryFor(w)))]
            /\ pc' = [pc EXCEPT ![w] = "write"]
       ELSE /\ data' = [data EXCEPT ![w] = ReadValue(file)]
            /\ pc' = [pc EXCEPT ![w] = "failed"]
    /\ Log(w, "read")
    /\ UNCHANGED <<file, clock, stamped, resp, args>>

\* write_text: open(mode="w")
Truncate(w) ==
    /\ pc[w] = "write"
    /\ file' = Text
    /\ pc' = [pc EXCEPT ![w] = "flush"]
    /\ Log(w, "truncate")
    /\ UNCHANGED <<data, clock, stamped, resp, args>>

\* write_text: the text is written and the file closed
Flush(w) ==
    /\ pc[w] = "flush"
    /\ file' = Dumped(data[w])
    /\ pc' = [pc EXCEPT ![w] = "done"]
    /\ Log(w, "flush")
    /\ UNCHANGED <<data, clock, stamped, resp, args>>

\* a request reaches save_user_entry
Start(w) ==
    /\ pc[w] = "idle"
    /\ pc' = [pc EXCEPT ![w] = "ensure1"]
    /\ Log(w, "start")
    /\ UNCHANGED <<file, data, clock, stamped, resp, args>>

ConcContents ==
    {Absent, Text, Object(<< >>), Array(<< >>), Array(<<[name |-> "old"]>>)}

InitConc ==
    /\ file \in ConcContents
    /\ clock = [sec |-> 0, usec |-> 0]
    /\ stamped = {}
    /\ resp = NoResp
    /\ pc = IdlePc
    /\ data = IdleData
    /\ oplog = << >>
    /\ args = NoArgs

NextConc ==
    \E w \in Writers :
        Start(w) \/ Check(w) \/ Create(w) \/ Read(w) \/ Truncate(w) \/ Flush(w)

SpecConc == InitConc /\ [][NextConc]_vars

----------------------------------------------------------------------------
(* Helpers of the properties *)

Abs(x) == IF x < 0 THEN 0 - x ELSE x

Count(s, e) == Cardinality({i \in 1..Len(s) : s[i] = e})

IsPrefix(s, t) == Len(s) <= Len(t) /\ SubSeq(t, 1, Len(s)) = s

\* every adjacent pair of the listing: the earlier-listed key is >= the later one
Descending(users) ==
    \A i \in 1..(Len(users) - 1) :
        ~StrLess(GetTimestamp(users[i]), GetTimestamp(users[i + 1]))

\* the double a is n/d to within one part in 2^52
IsDoubleOf(a, n, d) ==
    LET k == IF a.e < 0 THEN 0 - a.e ELSE 0
        x == Shl(BigMul(FromInt(d), a.m), a.e + k)
        y == Shl(FromInt(n), k)
        diff == IF BigLess(x, y) THEN BigSub(y, x) ELSE BigSub(x, y)
    IN  ~a.neg /\ ~BigLess(y, Shl(diff, 52))

\* r is an integer nearest to n/d
IsNearest(r, n, d) == 2 * Abs(r * d - n) <= d

\* r is the integer nearest to n/d, the even one of the two at a tie
IsNearestEven(r, n, d) == IsNearest(r, n, d) /\ (2 * Abs(r * d - n) = d => r % 2 = 0)

----------------------------------------------------------------------------
(* C2 (SpecStore).  load_users on a store whose text is not JSON returns   *)
(* the empty list without failing and leaves the text alone; on an absent  *)
(* store it writes [] to the store and returns the empty list.             *)
C2_LoadCorruptOrAbsent ==
    [][LoadCall =>
         /\ file.kind = "text" =>
                resp'.status = "ok" /\ resp'.value = Array(<< >>) /\ file' = file
         /\ file.kind = "absent" =>
                resp'.status = "ok" /\ resp'.value = Array(<< >>) /\ file' = Array(<< >>)]_vars

\* a load has answered [] on a store that still holds its unparseable text
C2_Witness ==
    file.kind = "text" /\ resp.op = "load_users" /\ resp.value = Array(<< >>)

(* C1 (SpecStore).  Once save_user_entry(e) has completed for an e that    *)
(* was not in the store, the next listing (dashboard) is produced, holds e *)
(* exactly once and is in descending order of the timestamp strings.       *)
C1_RoundTrip ==
    [][(/\ ListCall
        /\ resp.op = "save_user_entry" /\ resp.status = "ok"
        /\ Count(file.items, resp.entry) = 1)
       => /\ resp'.status = "ok"
          /\ Count(resp'.users, resp.entry) = 1
          /\ Len(resp'.users) = Len(file.items)
          /\ Descending(resp'.users)]_vars

(* C3 (SpecStore).  Whatever the store holds, load_users returns a list    *)
(* and save_user_entry(entry) completes and leaves a JSON array whose last *)
(* element is entry.                                                       *)
C3_NoFatalPath ==
    [][/\ LoadCall => resp'.status = "ok" /\ resp'.value.kind = "array"
       /\ SaveCall =>
              /\ resp'.status = "ok"
              /\ file'.kind = "array"
              /\ file'.items # << >>
              /\ file'.items[Len(file'.items)] = resp'.entry]_vars

----------------------------------------------------------------------------
(* C4 (SpecConc).  Two concurrent save_user_entry calls: when both have    *)
(* read the store before either starts to write it, the store ends up with *)
(* exactly one of the two entries (the last writer's file wins); when one  *)
(* call runs entirely before the other, the store ends up with both.       *)

Has(e) == file.kind = "array" /\ \E i \in 1..Len(file.items) : file.items[i] = e

OpIndex(w, op) == CHOOSE i \in 1..Len(oplog) : oplog[i] = <<w, op>>

BothReadBeforeWrite ==
    \A w \in Writers, v \in Writers : OpIndex(w, "read") < OpIndex(v, "truncate")

OneAfterTheOther ==
    \E w \in Writers, v \in Writers :
        /\ w # v
        /\ \A i \in 1..Len(oplog), j \in 1..Len(oplog) :
               oplog[i][1] = w /\ oplog[j][1] = v => i < j

BothDone == \A w \in Writers : pc[w] = "done"

C4_LostUpdate ==
    BothDone =>
        /\ BothReadBeforeWrite => (Has(EntryFor(1)) /\ ~Has(EntryFor(2)))
                                    \/ (Has(EntryFor(2)) /\ ~Has(EntryFor(1)))
        /\ OneAfterTheOther => Has(EntryFor(1)) /\ Has(EntryFor(2))

\* both writers finished a race, and writer 1's entry is gone
C4_Witness ==
    BothDone /\ BothReadBeforeWrite /\ Has(EntryFor(2)) /\ ~Has(EntryFor(1))

----------------------------------------------------------------------------
(* C5 (Spec).  Requests handled one after the other never change or remove *)
(* a stored entry: the store's sequence before a request is a prefix of    *)
(* its sequence after it.                                                  *)
C5_AppendOnly ==
    [][file.kind = "array" =>
           file'.kind = "array" /\ IsPrefix(file.items, file'.items)]_vars

\* a second entry was saved behind a first one, and a dashboard was served
C5_Witness ==
    file.kind = "array" /\ Len(file.items) >= 2 /\ resp.op = "dashboard"

\* a step of Spec is a calculate request exactly when it answers as calculate
\* and the clock stands still (a clock tick leaves the response alone)
CalculateStep == resp'.op = "calculate" /\ clock' = clock

(* C6 (Spec).  A calculate request without the save field leaves the store *)
(* as it is (an absent store stays absent); one with the save field        *)
(* appends exactly one entry, which holds the inputs as submitted, the     *)
(* rounded results, and the name, "Anonymous" when the name was empty.     *)
C6_SaveOnlyOnOptIn ==
    [][CalculateStep =>
         /\ resp'.status = "ok"
         /\ ~resp'.saved => file' = file
         /\ resp'.saved =>
              /\ file'.kind = "array"
              /\ Len(file'.items) = Len(file.items) + 1
              /\ IsPrefix(file.items, file'.items)
              /\ LET e == file'.items[Len(file'.items)]
                     i == resp'.inputs
                 IN  /\ e.name = (IF i.name = "" THEN "Anonymous" ELSE i.name)
                     /\ e.inputs = [height_cm |-> i.height_cm, weight_kg |-> i.weight_kg,
                                    age_years |-> i.age_years, gender |-> i.gender,
                                    activity_level |-> i.activity_level]
                     /\ e.results = resp'.result
                     /\ DOMAIN e = {"name", "timestamp", "inputs", "results"}]_vars

\* a submission with an empty name, upper-case gender and unknown activity
\* level was saved
C6_Witness ==
    /\ resp.op = "calculate" /\ resp.saved /\ resp.inputs.name = ""
    /\ file.kind = "array" /\ file.items # << >>
    /\ file.items[Len(file.items)].name = "Anonymous"
    /\ file.items[Len(file.items)].inputs.gender = MaleUpper
    /\ file.items[Len(file.items)].inputs.activity_level = "lazy"

(* C10 (Spec).  Every timestamp calculate stores has the same length, the  *)
(* order of two stored timestamp strings is the order of the instants they *)
(* were taken at, and the dashboard lists saved entries newest first.      *)
C10_TimestampOrder ==
    /\ \A a \in stamped, b \in stamped :
           /\ Len(Timestamp(a)) = Len(Timestamp(b))
           /\ Earlier(a, b) <=> StrLess(Timestamp(a), Timestamp(b))
    /\ (resp.op = "dashboard" /\ resp.status = "ok") =>
           \A i \in 1..Len(resp.users), j \in 1..Len(resp.users) :
               \A a \in stamped, b \in stamped :
                   (/\ i < j
                    /\ GetTimestamp(resp.users[i]) = Timestamp(a)
                    /\ GetTimestamp(resp.users[j]) = Timestamp(b)) => ~Earlier(a, b)

----------------------------------------------------------------------------
(* The engine's claims (SpecCalc).  The reference values are written from  *)
(* the formulas: kcal in 1/8000, grams in 1/32000.                         *)

\* gender equals "male" whatever the case of its letters
IsMale(g) == Len(g) = 4 /\ \A i \in 1..4 : g[i] = Male[i] \/ g[i] = Male[i] - 32

\* 8 * (10*weightKg + 6.25*heightCm - 5*ageYears + 5 or - 161)
RefBmr8(a) == 10 * a.w + 25 * a.h - 40 * a.a + (IF IsMale(a.g) THEN 8 * 5 ELSE 0 - 8 * 161)

RefTable == {<<"sedentary", 1200>>, <<"light", 1375>>, <<"moderate", 1550>>,
             <<"very", 1725>>, <<"extra", 1900>>}

RefMultiplier(a) ==
    IF \E p \in RefTable : p[1] = a.l
    THEN (CHOOSE p \in RefTable : p[1] = a.l)[2]
    ELSE 1200

\* 8000 * bmr * multiplier
RefTdee(a) == RefBmr8(a) * RefMultiplier(a)

\* 8000 * (1.8*weightKg*4 + 0.8*weightKg*9)
RefFixedCost(a) == (18 * 4 + 8 * 9) * 100 * a.w

\* 32000 * max(bmr*multiplier - (1.8*weightKg*4 + 0.8*weightKg*9), 0) / 4
RefCarbs(a) == IF RefTdee(a) > RefFixedCost(a) THEN RefTdee(a) - RefFixedCost(a) ELSE 0

Example == [fn |-> "calculate", w |-> 640, h |-> 360, a |-> 30, g |-> Male, l |-> "moderate"]

Calculated == args.fn = "calculate" /\ resp.op = "calculate" /\ resp.status = "ok"

\* calories, protein, fat, carbs, bmr of a result
Rounded(r) == <<r.calories, r.protein_g, r.fat_g, r.carb_g, r.bmr>>

MacroKcal(r) == 4 * r.protein_g + 9 * r.fat_g + 4 * r.carb_g

(* C7 (SpecCalc), as stated.  For every result of calculate the rounded    *)
(* macros account for the rounded calories to within 9 kcal.               *)
C7_MacrosMatchCalories ==
    Calculated => Abs(MacroKcal(resp.result) - resp.result.calories) <= 9

(* C7 (SpecCalc), amended.  Whenever the carbs were not clamped, that is   *)
(* bmr*multiplier >= 1.8*weightKg*4 + 0.8*weightKg*9, the rounded macros   *)
(* account for the rounded calories to within 9 kcal.                      *)
C7_MacrosMatchUnclamped ==
    (Calculated /\ RefTdee(args) >= RefFixedCost(args)) =>
        Abs(MacroKcal(resp.result) - resp.result.calories) <= 9

\* an unclamped result whose macros are off the calories by 5 kcal or more
C7_Witness ==
    /\ Calculated /\ RefTdee(args) >= RefFixedCost(args)
    /\ resp.result.carb_g > 0
    /\ Abs(MacroKcal(resp.result) - resp.result.calories) >= 5

(* C8 (SpecCalc), as stated.  calculate returns the reference values, each *)
(* rounded to the nearest integer with ties to even, and the example       *)
(* 180 cm, 80 kg, 30 y, male, moderate gives 2623 / 144 / 64 / 368 / 1692. *)
C8_ReferenceTiesToEven ==
    Calculated =>
        /\ IsDoubleOf(resp.result.activity_multiplier, RefMultiplier(args), 1000)
        /\ IsNearestEven(resp.result.bmr, RefBmr8(args), 8)
        /\ IsNearestEven(resp.result.calories, RefTdee(args), 8000)
        /\ IsNearestEven(resp.result.protein_g, 18 * args.w, 80)
        /\ IsNearestEven(resp.result.fat_g, 8 * args.w, 80)
        /\ IsNearestEven(resp.result.carb_g, RefCarbs(args), 32000)
        /\ args = Example =>
               Rounded(resp.result) = <<2623, 144, 64, 368, 1692>>

(* C8 (SpecCalc), amended.  calculate returns the reference values; bmr,   *)
(* calories, protein and fat are rounded to the nearest integer with ties  *)
(* to even, carbs to a nearest integer (either neighbour when the exact    *)
(* value is halfway), and the example gives 2759 / 144 / 64 / 402 / 1780.  *)
C8_Reference ==
    Calculated =>
        /\ IsDoubleOf(resp.result.activity_multiplier, RefMultiplier(args), 1000)
        /\ IsNearestEven(resp.result.bmr, RefBmr8(args), 8)
        /\ IsNearestEven(resp.result.calories, RefTdee(args), 8000)
        /\ IsNearestEven(resp.result.protein_g, 18 * args.w, 80)
        /\ IsNearestEven(resp.result.fat_g, 8 * args.w, 80)
        /\ IsNearest(resp.result.carb_g, RefCarbs(args), 32000)
        /\ args = Example =>
               Rounded(resp.result) = <<2759, 144, 64, 402, 1780>>

\* the example has been calculated
C8_Witness ==
    Calculated /\ args = Example /\ resp.result.calories = 2759 /\ resp.result.bmr = 1780

(* C9 (SpecCalc).  compute_macros never returns negative carbs, returns    *)
(* zero carbs exactly when totalCalories <= 1.8*weightKg*4 +               *)
(* 0.8*weightKg*9, and returns protein 1.8*weightKg and fat 0.8*weightKg   *)
(* (to the precision of a double) whatever the calories;                   *)
(* compute_macros(0, 70) is exactly 126 / 56 / 0.                          *)

====
